---- MODULE Spec2Model ----
(***************************************************************************)
(* TNKR SystemViewer: the explode / highlight controller of                *)
(* src/SystemViewer.js (first listing in src/unnamed/part_000), modelled   *)
(* as a state machine.  One action per public method or event handler;     *)
(* helper methods are operators from viewer state to viewer state.         *)
(*                                                                         *)
(* Positions are held in hundredths of a scene unit, so that               *)
(* offset * (percent / 100) is exact for every integer percent.            *)
(***************************************************************************)
EXTENDS Integers, Sequences, FiniteSets, TLC

\* ------------------------------------------------------------------ bounds
\* loadModel calls issued in one session
MaxLoads == 2
\* label elements of one part that may sit in the viewer container
MaxLabels == 2
\* expand/collapse animations in flight at the same time
MaxAnims == 1
\* animation frames that make up ANIMATION_DURATION
AnimSteps == 1
\* entries of a system's parts list
MaxParts == 3

\* ------------------------------------------------------------ test inputs
\* hundredths per scene unit
Scale == 100

Top == "Table_Top"
Felt == "Table_Fabric_Towel_0"
Leg == "Table_Leg_1"

\* part ids the page may pass to highlightPart / unhighlightPart
PartIds == {Top, Felt, Leg}

\* A Mesh object used as a Map/Set key: equal to no string key.
MeshKey == "[object Mesh]"

\* System configurations (shape of src/data/systems.js).  In "table" the
\* part Table_Leg_1 is configured but has no mesh in the asset, and the mesh
\* Table_Fabric_Towel_0 has no expand offset.
Systems ==
  [ table |-> [ modelPath |-> "table.glb",
                expandConfig |-> (Top :> [z |-> 1]) @@ (Leg :> [y |-> -1]) ],
    bench |-> [ modelPath |-> "bench.glb",
                expandConfig |-> (Top :> [y |-> 1, x |-> 0]) ] ]

SystemIds == DOMAIN Systems

\* Model assets: the mesh nodes of each file, with their load-time positions.
\* The file crate.glb has a group node, a mesh without a name and a named
\* mesh.
Assets ==
  [ table |-> << [name |-> Top,  isMesh |-> TRUE, position |-> <<0, 0, 200>>],
                 [name |-> Felt, isMesh |-> TRUE, position |-> <<0, 0, 210>>] >>,
    bench |-> << [name |-> Top,  isMesh |-> TRUE, position |-> <<0, 50, 0>>] >>,
    crate |-> << [name |-> "Frame", isMesh |-> FALSE, position |-> <<0, 0, 0>>],
                 [name |-> "",      isMesh |-> TRUE,  position |-> <<10, 0, 0>>],
                 [name |-> Top,     isMesh |-> TRUE,  position |-> <<0, 20, 0>>] >> ]

\* files loaded when the registry itself is looked at
RegistryAssets == {"table", "crate"}

\* slider values: the two ends (page session) and the whole range (slider
\* specification)
SliderEnds == {0, 100}
Percents == 0..100

\* Strings are sequences of one-character strings.
\* part definitions a parts list is drawn from (id and name of
\* systems.table.parts, and names that exercise the grouping rules)
PartPool ==
  { [id |-> "Table_Top",            name |-> << "T", "a", "b", "l", "e", " ", "T", "o", "p" >>],
    [id |-> "Table_Leg_1",          name |-> << "L", "e", "g", " ", "1" >>],
    [id |-> "Table_Leg_2",          name |-> << "L", "e", "g", " ", "2" >>],
    [id |-> "Table_Long_Apron_1",   name |-> << "L", "o", "n", "g", " ", "A", "p", "r", "o", "n", " ", "1" >>],
    [id |-> "Table_Fabric_Towel_0", name |-> << "P", "r", "o", "t", "e", "c", "t", "i", "v", "e", " ", "F", "e", "l", "t" >>],
    [id |-> "Table_Glass_1",        name |-> << "G", "l", "a", "s", "s", " ", "1" >>],
    [id |-> "Table_Glass_2",        name |-> << "G", "l", "a", "s", "s", " ", " ", "1", "2" >>],
    [id |-> "Table_Leg_0",          name |-> << "L", "e", "g" >>],
    [id |-> "Table_Apron_2",        name |-> << "A", "p", "r", "o", "n", "2" >>] }

\* values of the search box when an input event fires
TypedValues ==
  { << "l", "e", "g" >>, << "F", "e", "l", "t", " " >>, << "r", "o", "n" >>,
    << "l", "p", "n" >>,
    << "a", "p" >>, << "x", "y", "z" >>, << " ", " " >>,
    << "l" >>, << "L", "e", "G" >>, << >> }

\* delay of the search debounce, and the step in which time is observed
SEARCH_DEBOUNCE_MS == 150
TimeStep == 50

\* systems.js entries whose modelPath is null
Placeholders == {"laptop"}

\* systems the viewer page is opened for
PageSystemIds == {"table"} \cup Placeholders

\* systemConfig.parts || [] of the page's system: the two meshes of the
\* table share a base name and make one list item, the part without a mesh
\* makes another
PageParts ==
  [ table |-> << [id |-> Top,  name |-> << "P", "a", "n", "e", "l", " ", "1" >>],
                 [id |-> Leg,  name |-> << "L", "e", "g", " ", "1" >>],
                 [id |-> Felt, name |-> << "P", "a", "n", "e", "l", " ", "2" >>] >>,
    laptop |-> << >> ]

\* text of #sys-desc: as in the markup, systemConfig.description or the
\* default for a system without one, and the message of the catch
NoText == "markup"
DescriptionText(systemId) ==
  IF systemId = "table" THEN "Dining and workspace furniture system"
  ELSE "Interactive 3D System"
ErrorText == "Error loading model: "

NoConfig == "undefined"
NoMaterial == "undefined"
LoadMaterial == "load"
HighlightMaterial == "highlight"

\* ----------------------------------------------------------------- state
VARIABLES
  model,                    \* this.model: number of the loadModel call it came from, 0 = null
  sceneModels,              \* loaded models that are children of this.scene
  systemConfig,             \* this.systemConfig
  parts,                    \* this.parts: name -> mesh node
  originalPositions,        \* this.originalPositions: name -> position
  isExpanded,               \* this.isExpanded
  highlightedParts,         \* this.highlightedParts (scene clicks)
  sidebarHighlightedParts,  \* this.sidebarHighlightedParts (undefined = empty)
  partLabels,               \* keys of this.partLabels
  domLabels,                \* .part-label elements in the container, per part
  autoRotateEnabled,        \* this.autoRotateEnabled
  autoRotate,               \* this.controls.autoRotate
  mesh,                     \* node -> material, userData.originalMaterial, position
  tweens,                   \* gsap tweens in flight, in creation order
  pendingLoads,             \* loader.load calls whose callback has not run, in call order
  loadsIssued,              \* number of loadModel calls so far
  loadsDone,                \* number of load callbacks that succeeded
  lastOp,                   \* the call or callback that ran last
  partDefs,                 \* systemConfig.parts of the page's system
  allGroups,                \* viewer.js allGroups: the groups in Map order
  rendered,                 \* keys of the items in the parts list, top to bottom
  pageReady,                \* the page's handlers are bound
  searchDebounceTimer,      \* viewer.js searchDebounceTimer, 0 = null
  timers,                   \* pending timeouts: id -> query and ms left
  searchLog,                \* what the search box did since the last keystroke
  selected,                 \* keys of the list items that have the class selected
  sysDesc                   \* what the text of #sys-desc is

\* the viewer's state (SystemViewer.js) and the bookkeeping of its loads
viewerVars == << model, sceneModels, systemConfig, parts, originalPositions,
                 isExpanded, highlightedParts, sidebarHighlightedParts,
                 partLabels, domLabels, autoRotateEnabled, autoRotate, mesh,
                 tweens, pendingLoads, loadsIssued, loadsDone, lastOp >>

\* the page's own state (viewer.js)
pageVars == << partDefs, allGroups, rendered, pageReady, searchDebounceTimer,
               timers, searchLog, selected, sysDesc >>

vars == << model, sceneModels, systemConfig, parts, originalPositions,
           isExpanded, highlightedParts, sidebarHighlightedParts, partLabels,
           domLabels, autoRotateEnabled, autoRotate, mesh, tweens,
           pendingLoads, loadsIssued, loadsDone, lastOp, pageVars >>

\* The viewer's fields as one record, for the method operators below.
View ==
  [ model |-> model, sceneModels |-> sceneModels, systemConfig |-> systemConfig,
    parts |-> parts, originalPositions |-> originalPositions,
    isExpanded |-> isExpanded, highlightedParts |-> highlightedParts,
    sidebarHighlightedParts |-> sidebarHighlightedParts,
    partLabels |-> partLabels, domLabels |-> domLabels,
    autoRotateEnabled |-> autoRotateEnabled, autoRotate |-> autoRotate,
    mesh |-> mesh, tweens |-> tweens ]

\* Mesh nodes still referenced by the registry or by a tween.
Referenced(s) ==
  {s.parts[n] : n \in DOMAIN s.parts}
    \cup UNION {DOMAIN s.tweens[i].tw : i \in 1..Len(s.tweens)}

\* Write a viewer record back to the fields; mesh objects nothing refers to
\* any more are dropped.
Commit(s) ==
  /\ model' = s.model
  /\ sceneModels' = s.sceneModels
  /\ systemConfig' = s.systemConfig
  /\ parts' = s.parts
  /\ originalPositions' = s.originalPositions
  /\ isExpanded' = s.isExpanded
  /\ highlightedParts' = s.highlightedParts
  /\ sidebarHighlightedParts' = s.sidebarHighlightedParts
  /\ partLabels' = s.partLabels
  /\ domLabels' = s.domLabels
  /\ autoRotateEnabled' = s.autoRotateEnabled
  /\ autoRotate' = s.autoRotate
  /\ mesh' = [n \in Referenced(s) |-> s.mesh[n]]
  /\ tweens' = s.tweens

\* The last call: its name, its id arguments and a number (the percent, the
\* load number, the flag, or for highlight calls the provenance the first id
\* had before the call).
Op(name, ids, n) == [op |-> name, ids |-> ids, n |-> n]

\* 0 = in neither set, 1 = scene-click set only, 2 = sidebar set only, 3 = both
Provenance(id) ==
  (IF id \in highlightedParts THEN 1 ELSE 0)
    + (IF id \in sidebarHighlightedParts THEN 2 ELSE 0)

\* ------------------------------------------------------------ constructor
\* new SystemViewer(canvas)
InitViewer ==
  /\ model = 0
  /\ sceneModels = {}
  /\ systemConfig = NoConfig
  /\ parts = << >>
  /\ originalPositions = << >>
  /\ isExpanded = FALSE
  /\ highlightedParts = {}
  /\ sidebarHighlightedParts = {}
  /\ partLabels = {}
  /\ domLabels = [id \in PartIds |-> 0]
  /\ autoRotateEnabled = TRUE
  /\ autoRotate = TRUE
  /\ mesh = << >>
  /\ tweens = << >>
  /\ pendingLoads = << >>
  /\ loadsIssued = 0
  /\ loadsDone = 0
  /\ lastOp = Op("constructor", << >>, 0)

\* No pass of the search filter has run since the last keystroke.
NoPass == [query |-> << >>, at |-> 0, scores |-> << >>]

\* burst: the last keystroke arrived while the timer of the one before was
\* pending; value: what the box held at the last keystroke; typed: the query
\* the handler made of it; since: ms since the last keystroke; passes: filter
\* passes since the last keystroke; pass: the last of them.
NoSearch ==
  [burst |-> FALSE, value |-> << >>, typed |-> << >>, since |-> 0,
   passes |-> 0, pass |-> NoPass]

\* module state of viewer.js when the page's script starts
InitPage ==
  /\ allGroups = << >>
  /\ rendered = << >>
  /\ pageReady = FALSE
  /\ searchDebounceTimer = 0
  /\ timers = << >>
  /\ searchLog = NoSearch
  /\ selected = {}
  /\ sysDesc = NoText

\* the viewer on a page whose parts list is not looked at
Init ==
  /\ InitViewer
  /\ partDefs = << >>
  /\ InitPage

\* ------------------------------------------------------------- materials
\* A clone of the cached original with the emissive overlay set.
HighlightClone(original) == HighlightMaterial

\* applyHighlight caching the material the part shows on every call
applyHighlightRecaches(s, node) ==
  LET orig == s.mesh[node].material
  IN [s EXCEPT !.mesh[node].originalMaterial = orig,
               !.mesh[node].material = HighlightClone(orig)]

\* applyHighlight(part)
applyHighlight(s, node) ==
  LET orig == IF s.mesh[node].originalMaterial = NoMaterial
              THEN s.mesh[node].material        \* part.material.clone()
              ELSE s.mesh[node].originalMaterial
  IN [s EXCEPT !.mesh[node].originalMaterial = orig,
               !.mesh[node].material = HighlightClone(orig)]

\* if (part.userData.originalMaterial) part.material = that
restoreMaterial(s, node) ==
  IF s.mesh[node].originalMaterial # NoMaterial
  THEN [s EXCEPT !.mesh[node].material = s.mesh[node].originalMaterial]
  ELSE s

\* ---------------------------------------------------------------- labels
\* createPartLabel(partName): a new element is appended to the container
\* and stored under partName, replacing whatever was stored there.
createPartLabel(s, partName) ==
  [s EXCEPT !.domLabels[partName] = @ + 1,
            !.partLabels = @ \cup {partName}]

\* removePartLabel(partName): removes the element stored under the key.
removePartLabel(s, key) ==
  IF key \in s.partLabels
  THEN [s EXCEPT !.domLabels[key] = @ - 1,
                 !.partLabels = @ \ {key}]
  ELSE s

\* ------------------------------------------------------ sidebar highlight
highlightOne(s, partId) ==
  IF partId \in DOMAIN s.parts
  THEN LET node == s.parts[partId]
           s1 == applyHighlight(s, node)      \* same statements, inlined
           s2 == [s1 EXCEPT !.sidebarHighlightedParts = @ \cup {partId}]
       IN createPartLabel(s2, partId)
  ELSE s

RECURSIVE highlightEach(_, _, _)
highlightEach(s, ids, i) ==
  IF i > Len(ids) THEN s
  ELSE highlightEach(highlightOne(s, ids[i]), ids, i + 1)

\* highlightPart(partIds)
highlightPart(s, ids) ==
  [highlightEach(s, ids, 1) EXCEPT !.autoRotate = FALSE]

\* the forEach body without the delete from the scene-click set
unhighlightOneSidebarOnly(s, key) ==
  LET s1 == IF key \in DOMAIN s.parts THEN restoreMaterial(s, s.parts[key]) ELSE s
      s2 == [s1 EXCEPT !.sidebarHighlightedParts = @ \ {key}]
  IN removePartLabel(s2, key)

\* the forEach body without the removal of the label
unhighlightOneKeepsLabel(s, key) ==
  LET s1 == IF key \in DOMAIN s.parts THEN restoreMaterial(s, s.parts[key]) ELSE s
  IN [s1 EXCEPT !.sidebarHighlightedParts = @ \ {key},
                !.highlightedParts = @ \ {key}]

\* body of the forEach in unhighlightPart, for one key
unhighlightOne(s, key) ==
  LET s1 == IF key \in DOMAIN s.parts THEN restoreMaterial(s, s.parts[key]) ELSE s
      s2 == [s1 EXCEPT !.sidebarHighlightedParts = @ \ {key},
                       !.highlightedParts = @ \ {key}]
  IN removePartLabel(s2, key)

RECURSIVE unhighlightEach(_, _, _)
unhighlightEach(s, keys, i) ==
  IF i > Len(keys) THEN s
  ELSE unhighlightEach(unhighlightOne(s, keys[i]), keys, i + 1)

\* resuming the rotation outright instead of restoring the preference
unhighlightPartResumeAlways(s, keys) ==
  LET s1 == unhighlightEach(s, keys, 1)
  IN IF s1.sidebarHighlightedParts = {} /\ s1.highlightedParts = {}
     THEN [s1 EXCEPT !.autoRotate = TRUE]
     ELSE s1

\* unhighlightPart(partIds)
unhighlightPart(s, keys) ==
  LET s1 == unhighlightEach(s, keys, 1)
  IN IF s1.sidebarHighlightedParts = {} /\ s1.highlightedParts = {}
     THEN [s1 EXCEPT !.autoRotate = s1.autoRotateEnabled]
     ELSE s1

\* The argument clearAllHighlights hands to unhighlightPart: the Mesh object.
clearArgument(s, partName) == MeshKey

RECURSIVE clearEach(_, _)
clearEach(s, todo) ==
  IF todo = {} THEN s
  ELSE LET partName == CHOOSE n \in todo : TRUE
           s1 == IF partName \in DOMAIN s.parts
                 THEN unhighlightPart(s, << clearArgument(s, partName) >>)
                 ELSE s
       IN clearEach(removePartLabel(s1, partName), todo \ {partName})

\* clearAllHighlights()
clearAllHighlights(s) ==
  [clearEach(s, s.highlightedParts) EXCEPT !.highlightedParts = {}]

\* ------------------------------------------------------------ scene click
\* JSON.parse(el.dataset.partIds) of the list item made for the group key
ItemIds(key) ==
  LET g == CHOOSE h \in 1..Len(allGroups) : allGroups[h].key = key
  IN {allGroups[g].ids[k] : k \in 1..Len(allGroups[g].ids)}

\* a sync that unmarks every item that contains the part
syncSidebarSelectionAlways(s, marks, partId) ==
  {key \in marks : partId \notin ItemIds(key)}

\* syncSidebarSelection(partId, false): the items that still have the class
\* selected afterwards, marks being those that had it
syncSidebarSelection(s, marks, partId) ==
  {key \in marks :
     ~ /\ partId \in ItemIds(key)
       /\ ~\E id \in ItemIds(key) :
             id \in s.highlightedParts \/ id \in s.sidebarHighlightedParts}

\* the unhighlight branch without the restore of the original material
togglePartHighlightKeepsMaterial(s, partName) ==
  LET node == s.parts[partName]
  IN IF partName \in s.highlightedParts \/ partName \in s.sidebarHighlightedParts
     THEN LET s2 == [s EXCEPT !.highlightedParts = @ \ {partName}]
              s3 == removePartLabel(s2, partName)
          IN [s3 EXCEPT !.sidebarHighlightedParts = @ \ {partName}]
     ELSE LET s1 == applyHighlight(s, node)
              s2 == [s1 EXCEPT !.highlightedParts = @ \cup {partName}]
          IN createPartLabel(s2, partName)

\* togglePartHighlight(part), part being the registered mesh of that name
togglePartHighlight(s, partName) ==
  LET node == s.parts[partName]
  IN IF partName \in s.highlightedParts \/ partName \in s.sidebarHighlightedParts
     THEN LET s1 == restoreMaterial(s, node)
              s2 == [s1 EXCEPT !.highlightedParts = @ \ {partName}]
              s3 == removePartLabel(s2, partName)
          IN [s3 EXCEPT !.sidebarHighlightedParts = @ \ {partName}]
     ELSE LET s1 == applyHighlight(s, node)
              s2 == [s1 EXCEPT !.highlightedParts = @ \cup {partName}]
          IN createPartLabel(s2, partName)

\* -------------------------------------------------------------- explosion
\* offset.x || 0
Axis(offset, a) == IF a \in DOMAIN offset THEN offset[a] ELSE 0

HasExpandConfig(s) == s.systemConfig # NoConfig

\* systemConfig.expandConfig[name] is truthy and originalPositions has name
HasOffset(s, name) ==
  /\ name \in DOMAIN Systems[s.systemConfig].expandConfig
  /\ name \in DOMAIN s.originalPositions

\* the percentage used as the factor, without the division by 100
ExplodedPositionUnscaled(rest, offset, percent) ==
  << rest[1] + Axis(offset, "x") * Scale * percent,
     rest[2] + Axis(offset, "y") * Scale * percent,
     rest[3] + Axis(offset, "z") * Scale * percent >>

\* originalPos + (offset || 0) * factor, factor = percent / 100
ExplodedPosition(rest, offset, percent) ==
  << rest[1] + (Axis(offset, "x") * Scale * percent) \div 100,
     rest[2] + (Axis(offset, "y") * Scale * percent) \div 100,
     rest[3] + (Axis(offset, "z") * Scale * percent) \div 100 >>

\* the parts.forEach of setExplosionAmount
explodeParts(s, percent) ==
  [s EXCEPT !.mesh =
     [n \in DOMAIN s.mesh |->
        IF \E name \in DOMAIN s.parts : s.parts[name] = n /\ HasOffset(s, name)
        THEN LET name == CHOOSE nm \in DOMAIN s.parts : s.parts[nm] = n
             IN [s.mesh[n] EXCEPT !.position =
                   ExplodedPosition(s.originalPositions[name],
                                    Systems[s.systemConfig].expandConfig[name],
                                    percent)]
        ELSE s.mesh[n]]]

\* a slider that clears the highlights at every percentage
setExplosionAmountClearsAlways(s, percent) ==
  IF ~HasExpandConfig(s) THEN s
  ELSE LET s1 == [s EXCEPT !.isExpanded = (percent > 0),
                           !.autoRotate = s.autoRotateEnabled]
       IN clearAllHighlights(explodeParts(s1, percent))

\* setExplosionAmount(percent)
setExplosionAmount(s, percent) ==
  IF ~HasExpandConfig(s) THEN s
  ELSE LET s1 == [s EXCEPT !.isExpanded = (percent > 0),
                           !.autoRotate = s.autoRotateEnabled]
           s2 == explodeParts(s1, percent)
       IN IF percent = 0 THEN clearAllHighlights(s2) ELSE s2

\* A batch of tweens created by one expand() or collapse() call: k frames
\* have been rendered; each tween records its start value when it renders
\* for the first time.
NewBatch(ease, targets) ==
  [k |-> 0, ease |-> ease,
   tw |-> [n \in DOMAIN targets |-> [from |-> targets[n], to |-> targets[n]]]]

addBatch(s, ease, targets) ==
  IF DOMAIN targets = {} THEN s
  ELSE [s EXCEPT !.tweens = Append(@, NewBatch(ease, targets))]

\* targetPos of expand(): the rest position plus every non-zero offset axis
ExpandTarget(rest, offset) ==
  [a \in 1..3 |-> rest[a] + Axis(offset, <<"x", "y", "z">>[a]) * Scale]

expandTargets(s) ==
  LET names == {nm \in DOMAIN s.parts : HasOffset(s, nm)}
  IN [n \in {s.parts[nm] : nm \in names} |->
        LET nm == CHOOSE x \in names : s.parts[x] = n
        IN ExpandTarget(s.originalPositions[nm],
                        Systems[s.systemConfig].expandConfig[nm])]

\* expand() adding the offset to the stored rest position itself instead of
\* to a clone of it
expandMovesRest(s) ==
  IF ~HasExpandConfig(s) THEN s
  ELSE LET s1 == addBatch([s EXCEPT !.isExpanded = TRUE], "power2.out",
                          expandTargets(s))
       IN [s1 EXCEPT !.originalPositions =
             [nm \in DOMAIN s.originalPositions |->
                IF nm \in DOMAIN s.parts /\ HasOffset(s, nm)
                THEN ExpandTarget(s.originalPositions[nm],
                                  Systems[s.systemConfig].expandConfig[nm])
                ELSE s.originalPositions[nm]]]

\* expand() without the early return
expandUnguarded(s) ==
  IF ~HasExpandConfig(s) THEN [s EXCEPT !.isExpanded = TRUE]
  ELSE addBatch([s EXCEPT !.isExpanded = TRUE], "power2.out", expandTargets(s))

\* expand() leaving the flag for the end of the animation
expandFlagOnComplete(s) ==
  IF ~HasExpandConfig(s) THEN s
  ELSE addBatch(s, "power2.out", expandTargets(s))

\* expand()
expand(s) ==
  IF ~HasExpandConfig(s) THEN s
  ELSE addBatch([s EXCEPT !.isExpanded = TRUE], "power2.out", expandTargets(s))

collapseTargets(s) ==
  [n \in {s.parts[nm] : nm \in DOMAIN s.parts} |->
     LET nm == CHOOSE x \in DOMAIN s.parts : s.parts[x] = n
     IN s.originalPositions[nm]]

\* collapse() without the early return
collapseUnguarded(s) ==
  LET s1 == [s EXCEPT !.isExpanded = FALSE,
                      !.autoRotate = s.autoRotateEnabled]
      s2 == clearAllHighlights(s1)
  IN addBatch(s2, "power2.inOut", collapseTargets(s2))

\* collapse()
collapse(s) ==
  IF ~s.isExpanded THEN s
  ELSE LET s1 == [s EXCEPT !.isExpanded = FALSE,
                           !.autoRotate = s.autoRotateEnabled]
           s2 == clearAllHighlights(s1)
       IN addBatch(s2, "power2.inOut", collapseTargets(s2))

\* setAutoRotate(enabled)
setAutoRotate(s, enabled) ==
  [s EXCEPT !.autoRotateEnabled = enabled, !.autoRotate = enabled]

\* ----------------------------------------------------- animation frames
\* Eased progress after k of AnimSteps frames, as a fraction of
\* AnimSteps * AnimSteps.
EaseNumerator(ease, k) ==
  IF ease = "power2.out"
  THEN AnimSteps * AnimSteps - (AnimSteps - k) * (AnimSteps - k)
  ELSE IF 2 * k < AnimSteps
       THEN 2 * k * k
       ELSE AnimSteps * AnimSteps - 2 * (AnimSteps - k) * (AnimSteps - k)

Lerp(from, to, num) == from + ((to - from) * num) \div (AnimSteps * AnimSteps)

\* value a tween writes on its k-th frame; the last frame writes the target
TweenValue(from, to, ease, k) ==
  IF k >= AnimSteps THEN to
  ELSE [a \in 1..3 |-> Lerp(from[a], to[a], EaseNumerator(ease, k))]

\* One batch renders one frame on the mesh table m.
renderBatch(b, m) ==
  LET start(n) == IF b.k = 0 THEN m[n].position ELSE b.tw[n].from
      k2 == b.k + 1
  IN [ batch |-> [b EXCEPT !.k = k2,
                           !.tw = [n \in DOMAIN b.tw |->
                                     [b.tw[n] EXCEPT !.from = start(n)]]],
       mesh |-> [n \in DOMAIN m |->
                   IF n \in DOMAIN b.tw
                   THEN [m[n] EXCEPT !.position =
                           TweenValue(start(n), b.tw[n].to, b.ease, k2)]
                   ELSE m[n]] ]

\* The batches render in creation order; finished batches are dropped.
RECURSIVE renderAll(_, _, _, _)
renderAll(batches, i, m, kept) ==
  IF i > Len(batches) THEN [tweens |-> kept, mesh |-> m]
  ELSE LET r == renderBatch(batches[i], m)
       IN renderAll(batches, i + 1, r.mesh,
                    IF r.batch.k >= AnimSteps THEN kept
                    ELSE Append(kept, r.batch))

\* a ticker whose frames never advance a tween
tickStalls(s) == s

\* one tick of the gsap ticker
tick(s) ==
  LET r == renderAll(s.tweens, 1, s.mesh, << >>)
  IN [s EXCEPT !.tweens = r.tweens, !.mesh = r.mesh]

\* ---------------------------------------------------------------- loading
NewMesh(position) ==
  [material |-> LoadMaterial, originalMaterial |-> NoMaterial,
   position |-> position]

\* names under which the traverse of loadModel registers a mesh
RegisteredNames(asset) ==
  {asset[i].name : i \in {j \in 1..Len(asset) : asset[j].isMesh}}

AssetPosition(asset, name) ==
  asset[CHOOSE i \in 1..Len(asset) :
          asset[i].isMesh /\ asset[i].name = name].position

\* parts kept across a load
keptParts(s, asset) == DOMAIN s.parts

\* the success callback without the removal of the previous model
loadCallbackKeepsPrevious(s, cfg, no) ==
  LET asset == Assets[cfg]
      names == RegisteredNames(asset)
      all == keptParts(s, asset) \cup names
  IN [s EXCEPT
        !.sceneModels = @ \cup {no},
        !.model = no,
        !.systemConfig = cfg,
        !.parts = [nm \in all |-> IF nm \in names THEN << no, nm >> ELSE s.parts[nm]],
        !.originalPositions =
           [nm \in all |-> IF nm \in names THEN AssetPosition(asset, nm)
                           ELSE s.originalPositions[nm]],
        !.mesh = [n \in DOMAIN s.mesh \cup {<< no, nm >> : nm \in names} |->
                    IF n \in DOMAIN s.mesh THEN s.mesh[n]
                    ELSE NewMesh(AssetPosition(asset, n[2]))]]

\* the success callback of loader.load for configuration cfg; no is the
\* number of the loadModel call, which names the gltf.scene it delivers
loadCallback(s, cfg, no) ==
  LET asset == Assets[cfg]
      names == RegisteredNames(asset)
      all == keptParts(s, asset) \cup names
  IN [s EXCEPT
        !.sceneModels = (@ \ {s.model}) \cup {no},
        !.model = no,
        !.systemConfig = cfg,
        !.parts = [nm \in all |-> IF nm \in names THEN << no, nm >> ELSE s.parts[nm]],
        !.originalPositions =
           [nm \in all |-> IF nm \in names THEN AssetPosition(asset, nm)
                           ELSE s.originalPositions[nm]],
        !.mesh = [n \in DOMAIN s.mesh \cup {<< no, nm >> : nm \in names} |->
                    IF n \in DOMAIN s.mesh THEN s.mesh[n]
                    ELSE NewMesh(AssetPosition(asset, n[2]))]]

\* ---------------------------------------------------------------- strings
Uppers ==
  << "A", "B", "C", "D", "E", "F", "G", "H", "I", "J", "K", "L", "M",
     "N", "O", "P", "Q", "R", "S", "T", "U", "V", "W", "X", "Y", "Z" >>
Lowers ==
  << "a", "b", "c", "d", "e", "f", "g", "h", "i", "j", "k", "l", "m",
     "n", "o", "p", "q", "r", "s", "t", "u", "v", "w", "x", "y", "z" >>

\* the regular expression classes \s and \d
IsSpace(c) == c \in {" ", "\t", "\n"}
IsDigit(c) == c \in {"0", "1", "2", "3", "4", "5", "6", "7", "8", "9"}

Least(S) == CHOOSE x \in S : \A y \in S : x <= y
Greatest(S) == CHOOSE x \in S : \A y \in S : y <= x

\* a toLowerCase that changes nothing
toLowerCaseNothing(str) == str

\* String.prototype.toLowerCase
toLowerCase(str) ==
  [i \in 1..Len(str) |->
     IF \E k \in 1..Len(Uppers) : Uppers[k] = str[i]
     THEN Lowers[CHOOSE k \in 1..Len(Uppers) : Uppers[k] = str[i]]
     ELSE str[i]]

\* a trim that strips nothing
trimNothing(str) == str

\* String.prototype.trim
trim(str) ==
  LET solid == {i \in 1..Len(str) : ~IsSpace(str[i])}
  IN IF solid = {} THEN << >>
     ELSE SubSeq(str, Least(solid), Greatest(solid))

\* String.prototype.startsWith / endsWith / includes
startsWith(str, q) == Len(q) <= Len(str) /\ SubSeq(str, 1, Len(q)) = q
endsWith(str, q) ==
  Len(q) <= Len(str) /\ SubSeq(str, Len(str) - Len(q) + 1, Len(str)) = q
includes(str, q) ==
  \E i \in 0..(Len(str) - Len(q)) : SubSeq(str, i + 1, i + Len(q)) = q

\* str.split(/\s+/): the pieces between the runs of whitespace, an empty
\* piece before a leading run and after a trailing run included
RECURSIVE split(_, _, _)
split(str, i, piece) ==
  IF i > Len(str) THEN << piece >>
  ELSE IF IsSpace(str[i])
       THEN LET rest == {j \in (i + 1)..Len(str) : ~IsSpace(str[j])}
                next == IF rest = {} THEN Len(str) + 1 ELSE Least(rest)
            IN << piece >> \o split(str, next, << >>)
       ELSE split(str, i + 1, Append(piece, str[i]))

\* /\s*\d+$/ matches str from position i to its end
MatchesTrailingNumber(str, i) ==
  \E j \in i..Len(str) :
     /\ \A k \in i..(j - 1) : IsSpace(str[k])
     /\ \A k \in j..Len(str) : IsDigit(str[k])

\* str.replace(/\s*\d+$/, ''): the leftmost match is removed
replaceTrailingNumber(str) ==
  LET starts == {i \in 1..Len(str) : MatchesTrailingNumber(str, i)}
  IN IF starts = {} THEN str ELSE SubSeq(str, 1, Least(starts) - 1)

\* --------------------------------------------------------------- grouping
\* the part's name taken as it is (trimmed), number included
baseNameUnstripped(part) == trim(part.name)

\* part.name.replace(/\s*\d+$/, '').trim()
baseName(part) == trim(replaceTrailingNumber(part.name))

\* the parts.forEach of groupParts: groups is the Map, in insertion order
RECURSIVE addParts(_, _, _)
addParts(groups, partList, i) ==
  IF i > Len(partList) THEN groups
  ELSE LET part == partList[i]
           key == baseName(part)
           gs == IF \E g \in 1..Len(groups) : groups[g].key = key
                 THEN groups
                 ELSE Append(groups, [key |-> key, displayName |-> key,
                                      ids |-> << >>])
           at == CHOOSE g \in 1..Len(gs) : gs[g].key = key
       IN addParts([gs EXCEPT ![at].ids = Append(@, part.id)], partList, i + 1)

\* the plural for every group of several parts
pluralizeAlways(group) ==
  IF Len(group.ids) > 1
  THEN [group EXCEPT !.displayName = Append(group.key, "s")]
  ELSE group

\* the groups.forEach of groupParts
pluralize(group) ==
  IF Len(group.ids) > 1 /\ ~endsWith(group.key, << "s" >>)
  THEN [group EXCEPT !.displayName = Append(group.key, "s")]
  ELSE group

\* groupParts(parts)
groupParts(partList) ==
  LET groups == addParts(<< >>, partList, 1)
  IN [g \in 1..Len(groups) |-> pluralize(groups[g])]

\* ----------------------------------------------------------------- search
\* the fuzzy loop of getSearchScore: the value of queryIndex when it ends
RECURSIVE fuzzyIndex(_, _, _, _)
fuzzyIndex(name, query, i, queryIndex) ==
  IF i <= Len(name) /\ queryIndex < Len(query)
  THEN fuzzyIndex(name, query, i + 1,
                  IF name[i] = query[queryIndex + 1] THEN queryIndex + 1
                  ELSE queryIndex)
  ELSE queryIndex

\* the substring test ahead of the word test
getSearchScoreSubstringFirst(displayName, query) ==
  LET name == toLowerCase(displayName)
      words == split(name, 1, << >>)
      hits == {i \in 1..Len(words) : startsWith(words[i], query)}
  IN IF startsWith(name, query) THEN 100
     ELSE IF includes(name, query) THEN 50
     ELSE IF hits # {} THEN 90 - (Least(hits) - 1) * 10
     ELSE IF fuzzyIndex(name, query, 1, 0) = Len(query) THEN 20
     ELSE 0

\* the words counted from one
getSearchScoreWordsFromOne(displayName, query) ==
  LET name == toLowerCase(displayName)
      words == split(name, 1, << >>)
      hits == {i \in 1..Len(words) : startsWith(words[i], query)}
  IN IF startsWith(name, query) THEN 100
     ELSE IF hits # {} THEN 90 - Least(hits) * 10
     ELSE IF includes(name, query) THEN 50
     ELSE IF fuzzyIndex(name, query, 1, 0) = Len(query) THEN 20
     ELSE 0

\* getSearchScore(displayName, query); words[i] of the code is words[i + 1]
getSearchScore(displayName, query) ==
  LET name == toLowerCase(displayName)
      words == split(name, 1, << >>)
      hits == {i \in 1..Len(words) : startsWith(words[i], query)}
  IN IF startsWith(name, query) THEN 100
     ELSE IF hits # {} THEN 90 - (Least(hits) - 1) * 10
     ELSE IF includes(name, query) THEN 50
     ELSE IF fuzzyIndex(name, query, 1, 0) = Len(query) THEN 20
     ELSE 0

\* a sort that puts an entry in front of the earlier entries of its score
RECURSIVE sortByScoreUnstable(_, _, _)
sortByScoreUnstable(entries, i, sorted) ==
  IF i > Len(entries) THEN sorted
  ELSE LET e == entries[i]
           before == {k \in 1..Len(sorted) : sorted[k].score > e.score}
           n == IF before = {} THEN 0 ELSE Greatest(before)
       IN sortByScoreUnstable(entries, i + 1,
                              SubSeq(sorted, 1, n) \o << e >>
                                \o SubSeq(sorted, n + 1, Len(sorted)))

\* Array.prototype.sort((a, b) => b.score - a.score): stable, so an entry
\* goes behind every earlier entry whose score is not lower
RECURSIVE sortByScore(_, _, _)
sortByScore(entries, i, sorted) ==
  IF i > Len(entries) THEN sorted
  ELSE LET e == entries[i]
           before == {k \in 1..Len(sorted) : sorted[k].score >= e.score}
           n == IF before = {} THEN 0 ELSE Greatest(before)
       IN sortByScore(entries, i + 1,
                      SubSeq(sorted, 1, n) \o << e >>
                        \o SubSeq(sorted, n + 1, Len(sorted)))

\* renderFilteredPartsList(viewer, groups): one item per group, in Map order
renderFilteredPartsList(groups) == [g \in 1..Len(groups) |-> groups[g].key]

\* the scores filterAndRenderParts computes, one per group of allGroups
scoreGroups(groups, query) ==
  [g \in 1..Len(groups) |-> getSearchScore(groups[g].displayName, query)]

\* filterAndRenderParts(viewer, query): the list it renders
filterAndRenderParts(groups, query) ==
  IF query = << >> THEN renderFilteredPartsList(groups)
  ELSE LET scores == scoreGroups(groups, query)
           entries == [g \in 1..Len(groups) |->
                         [key |-> groups[g].key, score |-> scores[g]]]
           sortedEntries ==
             sortByScore(SelectSeq(entries, LAMBDA e : e.score > 0), 1, << >>)
       IN renderFilteredPartsList(sortedEntries)

\* clearTimeout that cancels nothing
clearTimeoutNothing(pending, id) == pending

\* clearTimeout(id)
clearTimeout(pending, id) ==
  [t \in DOMAIN pending \ {id} |-> pending[t]]

\* ---------------------------------------------------------------- actions
\* argument lists the sidebar passes (one part, or the parts of a group)
IdLists == { << Top >>, << Leg >>, << Top, Felt >> }

LabelsBounded(s) == \A id \in PartIds : s.domLabels[id] <= MaxLabels

Keep == UNCHANGED << pendingLoads, loadsIssued, loadsDone, pageVars >>

\* loadModel(path, config): starts the asynchronous load
LoadModel(cfg) ==
  /\ loadsIssued < MaxLoads
  /\ pendingLoads' = Append(pendingLoads, [cfg |-> cfg, no |-> loadsIssued + 1])
  /\ loadsIssued' = loadsIssued + 1
  /\ lastOp' = Op("loadModel", << cfg >>, loadsIssued + 1)
  /\ UNCHANGED << model, sceneModels, systemConfig, parts, originalPositions,
                  isExpanded, highlightedParts, sidebarHighlightedParts,
                  partLabels, domLabels, autoRotateEnabled, autoRotate, mesh,
                  tweens, loadsDone, pageVars >>

\* the page's DOMContentLoaded handler: the one loadModel call of a session
PageLoad(cfg) ==
  /\ loadsIssued = 0
  /\ pendingLoads' = Append(pendingLoads, [cfg |-> cfg, no |-> loadsIssued + 1])
  /\ loadsIssued' = loadsIssued + 1
  /\ lastOp' = Op("loadModel", << cfg >>, loadsIssued + 1)
  /\ UNCHANGED << model, sceneModels, systemConfig, parts, originalPositions,
                  isExpanded, highlightedParts, sidebarHighlightedParts,
                  partLabels, domLabels, autoRotateEnabled, autoRotate, mesh,
                  tweens, loadsDone, pageVars >>

RemoveAt(seq, i) == SubSeq(seq, 1, i - 1) \o SubSeq(seq, i + 1, Len(seq))

\* the load callback of a pending load runs
LoadSucceeds(i) ==
  /\ i \in 1..Len(pendingLoads)
  /\ Commit(loadCallback(View, pendingLoads[i].cfg, pendingLoads[i].no))
  /\ pendingLoads' = RemoveAt(pendingLoads, i)
  /\ loadsDone' = loadsDone + 1
  /\ lastOp' = Op("loadDone", << pendingLoads[i].cfg >>, pendingLoads[i].no)
  /\ UNCHANGED << loadsIssued, pageVars >>

\* the error callback of a pending load runs: the promise rejects
LoadFails(i) ==
  /\ i \in 1..Len(pendingLoads)
  /\ pendingLoads' = RemoveAt(pendingLoads, i)
  /\ lastOp' = Op("loadError", << pendingLoads[i].cfg >>, pendingLoads[i].no)
  /\ UNCHANGED << model, sceneModels, systemConfig, parts, originalPositions,
                  isExpanded, highlightedParts, sidebarHighlightedParts,
                  partLabels, domLabels, autoRotateEnabled, autoRotate, mesh,
                  tweens, loadsIssued, loadsDone, pageVars >>

\* sidebar: highlightPart(ids)
HighlightPart(ids) ==
  /\ LabelsBounded(highlightPart(View, ids))
  /\ Commit(highlightPart(View, ids))
  /\ lastOp' = Op("highlightPart", ids, Provenance(ids[1]))
  /\ Keep

\* sidebar: unhighlightPart(ids)
UnhighlightPart(ids) ==
  /\ Commit(unhighlightPart(View, ids))
  /\ lastOp' = Op("unhighlightPart", ids, Provenance(ids[1]))
  /\ Keep

\* onCanvasClick: the ray hits a registered mesh
CanvasClick(partName) ==
  /\ partName \in DOMAIN parts
  /\ LabelsBounded(togglePartHighlight(View, partName))
  /\ Commit(togglePartHighlight(View, partName))
  /\ selected' =
       IF partName \in highlightedParts \/ partName \in sidebarHighlightedParts
       THEN syncSidebarSelection(togglePartHighlight(View, partName),
                                 selected, partName)
       ELSE selected
  /\ lastOp' = Op("click", << partName >>, Provenance(partName))
  /\ UNCHANGED << pendingLoads, loadsIssued, loadsDone, partDefs, allGroups,
                  rendered, pageReady, searchDebounceTimer, timers, searchLog,
                  sysDesc >>

\* slider: setExplosionAmount(percent)
SetExplosionAmount(percent) ==
  /\ Commit(setExplosionAmount(View, percent))
  /\ lastOp' = Op("setExplosionAmount", << >>, percent)
  /\ Keep

\* button: expand()
Expand ==
  /\ Len(tweens) < MaxAnims
  /\ Commit(expand(View))
  /\ lastOp' = Op("expand", << >>, 0)
  /\ Keep

\* button: collapse()
Collapse ==
  /\ Len(tweens) < MaxAnims
  /\ Commit(collapse(View))
  /\ lastOp' = Op("collapse", << >>, 0)
  /\ Keep

\* checkbox: setAutoRotate(enabled)
SetAutoRotate(enabled) ==
  /\ Commit(setAutoRotate(View, enabled))
  /\ lastOp' = Op("setAutoRotate", << >>, IF enabled THEN 1 ELSE 0)
  /\ Keep

\* a frame in which gsap renders the tweens in flight
Tick ==
  /\ tweens # << >>
  /\ Commit(tick(View))
  /\ lastOp' = Op("tick", << >>, 0)
  /\ Keep

\* ------------------------------------------------------------ page actions
\* parts lists of a system: up to MaxParts different parts of the pool
PartLists ==
  UNION { { l \in [1..n -> PartPool] :
              \A i, j \in 1..n : i # j => l[i].id # l[j].id } : n \in 0..MaxParts }

PoolPart(id) == CHOOSE part \in PartPool : part.id = id

\* parts lists behind the search box: the seven parts in the order of
\* systems.table.parts, and two short lists (a group at the end of the
\* rules, a single leg)
SearchLists ==
  { [i \in 1..7 |->
       PoolPart(<< "Table_Top", "Table_Leg_1", "Table_Leg_2",
                   "Table_Long_Apron_1", "Table_Fabric_Towel_0",
                   "Table_Glass_1", "Table_Glass_2" >>[i])],
    << PoolPart("Table_Long_Apron_1"), PoolPart("Table_Top"),
       PoolPart("Table_Fabric_Towel_0") >>,
    << PoolPart("Table_Leg_1"), PoolPart("Table_Fabric_Towel_0") >> }

\* DOMContentLoaded handler once loadModel has resolved: the parts are
\* grouped, the list is rendered and the handlers are bound
PageModelLoaded ==
  /\ ~pageReady
  /\ allGroups' = groupParts(partDefs)
  /\ rendered' = renderFilteredPartsList(groupParts(partDefs))
  /\ selected' = {}
  /\ pageReady' = TRUE
  /\ UNCHANGED << partDefs, searchDebounceTimer, timers, searchLog, sysDesc,
                  viewerVars >>

\* input event of the search box, the box holding value
SearchInput(value) ==
  /\ pageReady
  /\ LET query == trim(toLowerCase(value))
         pending == IF searchDebounceTimer # 0
                    THEN clearTimeout(timers, searchDebounceTimer)
                    ELSE timers
         \* the id setTimeout returns: one that no timer has and that the
         \* variable does not hold
         id == Least({n \in 1..(Cardinality(DOMAIN pending) + 2) :
                        n \notin DOMAIN pending /\ n # searchDebounceTimer})
     IN /\ timers' = [t \in DOMAIN pending \cup {id} |->
                        IF t = id
                        THEN [query |-> query, left |-> SEARCH_DEBOUNCE_MS]
                        ELSE pending[t]]
        /\ searchDebounceTimer' = id
        /\ searchLog' =
             [burst |-> searchDebounceTimer \in DOMAIN timers,
              value |-> value, typed |-> query, since |-> 0, passes |-> 0,
              pass |-> NoPass]
  /\ UNCHANGED << partDefs, allGroups, rendered, pageReady, selected, sysDesc,
                  viewerVars >>

\* TimeStep ms pass while no pending timeout is due
Elapse ==
  /\ DOMAIN timers # {}
  /\ \A t \in DOMAIN timers : timers[t].left > 0
  /\ timers' = [t \in DOMAIN timers |->
                  [timers[t] EXCEPT !.left = IF @ > TimeStep THEN @ - TimeStep
                                             ELSE 0]]
  /\ searchLog' = [searchLog EXCEPT !.since = @ + TimeStep]
  /\ UNCHANGED << partDefs, allGroups, rendered, pageReady,
                  searchDebounceTimer, selected, sysDesc, viewerVars >>

\* the callback of timeout t runs: filterAndRenderParts(viewer, query)
TimerFires(t) ==
  /\ t \in DOMAIN timers
  /\ timers[t].left = 0
  /\ rendered' = filterAndRenderParts(allGroups, timers[t].query)
  /\ selected' = {}
  /\ timers' = [u \in DOMAIN timers \ {t} |-> timers[u]]
  /\ searchLog' =
       [searchLog EXCEPT
          !.passes = @ + 1,
          !.pass = [query |-> timers[t].query, at |-> searchLog.since,
                    scores |-> IF timers[t].query = << >> THEN << >>
                               ELSE scoreGroups(allGroups, timers[t].query)]]
  /\ UNCHANGED << partDefs, allGroups, pageReady, searchDebounceTimer,
                  sysDesc, viewerVars >>

\* DOMContentLoaded handler of viewer.js up to its await, the URL naming
\* systemId: loadModel is called if the system has a modelPath, else the
\* handler warns and goes on to bind the controls
DOMContentLoaded(systemId) ==
  /\ sysDesc = NoText
  /\ sysDesc' = DescriptionText(systemId)
  /\ partDefs' = PageParts[systemId]
  /\ IF systemId \notin Placeholders
     THEN /\ pendingLoads' =
               Append(pendingLoads, [cfg |-> systemId, no |-> loadsIssued + 1])
          /\ loadsIssued' = loadsIssued + 1
          /\ lastOp' = Op("loadModel", << systemId >>, loadsIssued + 1)
          /\ UNCHANGED pageReady
     ELSE /\ pageReady' = TRUE
          /\ lastOp' = Op("warn", << systemId >>, 0)
          /\ UNCHANGED << pendingLoads, loadsIssued >>
  /\ UNCHANGED << model, sceneModels, systemConfig, parts, originalPositions,
                  isExpanded, highlightedParts, sidebarHighlightedParts,
                  partLabels, domLabels, autoRotateEnabled, autoRotate, mesh,
                  tweens, loadsDone, allGroups, rendered, searchDebounceTimer,
                  timers, searchLog, selected >>

\* the load callback runs and resolves the promise the handler awaits: the
\* handler groups the parts, renders the list and binds the controls
PageLoadSucceeds ==
  /\ sysDesc # NoText
  /\ pendingLoads # << >>
  /\ Commit(loadCallback(View, pendingLoads[1].cfg, pendingLoads[1].no))
  /\ pendingLoads' = Tail(pendingLoads)
  /\ loadsDone' = loadsDone + 1
  /\ lastOp' = Op("loadDone", << pendingLoads[1].cfg >>, pendingLoads[1].no)
  /\ allGroups' = groupParts(partDefs)
  /\ rendered' = renderFilteredPartsList(groupParts(partDefs))
  /\ selected' = {}
  /\ pageReady' = TRUE
  /\ UNCHANGED << loadsIssued, partDefs, searchDebounceTimer, timers,
                  searchLog, sysDesc >>

\* a catch that writes no message
PageLoadFailsSilently ==
  /\ sysDesc # NoText
  /\ pendingLoads # << >>
  /\ pendingLoads' = Tail(pendingLoads)
  /\ lastOp' = Op("loadError", << pendingLoads[1].cfg >>, pendingLoads[1].no)
  /\ pageReady' = TRUE
  /\ UNCHANGED << model, sceneModels, systemConfig, parts, originalPositions,
                  isExpanded, highlightedParts, sidebarHighlightedParts,
                  partLabels, domLabels, autoRotateEnabled, autoRotate, mesh,
                  tweens, loadsIssued, loadsDone, partDefs, allGroups,
                  rendered, searchDebounceTimer, timers, searchLog, selected,
                  sysDesc >>

\* the error callback runs and rejects the promise: the catch of the
\* handler writes the message, then the handler binds the controls
PageLoadFails ==
  /\ sysDesc # NoText
  /\ pendingLoads # << >>
  /\ pendingLoads' = Tail(pendingLoads)
  /\ lastOp' = Op("loadError", << pendingLoads[1].cfg >>, pendingLoads[1].no)
  /\ sysDesc' = ErrorText
  /\ pageReady' = TRUE
  /\ UNCHANGED << model, sceneModels, systemConfig, parts, originalPositions,
                  isExpanded, highlightedParts, sidebarHighlightedParts,
                  partLabels, domLabels, autoRotateEnabled, autoRotate, mesh,
                  tweens, loadsIssued, loadsDone, partDefs, allGroups,
                  rendered, searchDebounceTimer, timers, searchLog, selected >>

\* ids of a list item in the order of its data attribute
ItemIdList(key) ==
  allGroups[CHOOSE h \in 1..Len(allGroups) : allGroups[h].key = key].ids

\* click on the list item of the group key
ItemClick(key) ==
  /\ \E i \in 1..Len(rendered) : rendered[i] = key
  /\ IF key \in selected
     THEN /\ selected' = selected \ {key}
          /\ Commit(unhighlightPart(View, ItemIdList(key)))
          /\ lastOp' = Op("unhighlightPart", ItemIdList(key),
                          Provenance(ItemIdList(key)[1]))
     ELSE /\ LabelsBounded(highlightPart(View, ItemIdList(key)))
          /\ selected' = selected \cup {key}
          /\ Commit(highlightPart(View, ItemIdList(key)))
          /\ lastOp' = Op("highlightPart", ItemIdList(key),
                          Provenance(ItemIdList(key)[1]))
  /\ UNCHANGED << pendingLoads, loadsIssued, loadsDone, partDefs, allGroups,
                  rendered, pageReady, searchDebounceTimer, timers, searchLog,
                  sysDesc >>

\* onCanvasClick: the ray hits no registered mesh
CanvasClickMisses ==
  /\ lastOp' = Op("click", << >>, 0)
  /\ UNCHANGED << model, sceneModels, systemConfig, parts, originalPositions,
                  isExpanded, highlightedParts, sidebarHighlightedParts,
                  partLabels, domLabels, autoRotateEnabled, autoRotate, mesh,
                  tweens, pendingLoads, loadsIssued, loadsDone, pageVars >>

\* The viewer page: the handler starts, the load ends either way (or is not
\* started), and the user works with the list, the canvas and the controls.
NextPage ==
  \/ \E systemId \in PageSystemIds : DOMContentLoaded(systemId)
  \/ PageLoadSucceeds
  \/ PageLoadFails
  \/ \E g \in 1..Len(allGroups) : ItemClick(allGroups[g].key)
  \/ \E partName \in PartIds : CanvasClick(partName)
  \/ CanvasClickMisses
  \/ pageReady /\ \E percent \in SliderEnds : SetExplosionAmount(percent)
  \/ pageReady /\ Expand
  \/ pageReady /\ Collapse
  \/ pageReady /\ \E enabled \in BOOLEAN : SetAutoRotate(enabled)
  \/ Tick

SpecPage == Init /\ [][NextPage]_vars

\* The page session: the model is loaded once, then the user acts.
Next ==
  \/ \E cfg \in SystemIds : PageLoad(cfg)
  \/ \E i \in 1..MaxLoads : LoadSucceeds(i)
  \/ \E i \in 1..MaxLoads : LoadFails(i)
  \/ \E ids \in IdLists : HighlightPart(ids)
  \/ \E ids \in IdLists : UnhighlightPart(ids)
  \/ \E partName \in PartIds : CanvasClick(partName)
  \/ \E percent \in SliderEnds : SetExplosionAmount(percent)
  \/ Expand
  \/ Collapse
  \/ \E enabled \in BOOLEAN : SetAutoRotate(enabled)
  \/ Tick

Spec == Init /\ [][Next]_vars

\* The viewer used through its interface with repeated and overlapping
\* loadModel calls, and the highlight operations.
NextReload ==
  \/ \E cfg \in SystemIds : LoadModel(cfg)
  \/ \E i \in 1..MaxLoads : LoadSucceeds(i)
  \/ \E i \in 1..MaxLoads : LoadFails(i)
  \/ \E ids \in IdLists : HighlightPart(ids)
  \/ \E ids \in IdLists : UnhighlightPart(ids)
  \/ \E partName \in PartIds : CanvasClick(partName)
  \/ \E percent \in SliderEnds : SetExplosionAmount(percent)

SpecReload == Init /\ [][NextReload]_vars

\* The slider over its whole range, on first and repeated loads.
NextSlider ==
  \/ \E cfg \in SystemIds : LoadModel(cfg)
  \/ \E i \in 1..MaxLoads : LoadSucceeds(i)
  \/ \E i \in 1..MaxLoads : LoadFails(i)
  \/ \E percent \in Percents : SetExplosionAmount(percent)

SpecSlider == Init /\ [][NextSlider]_vars

\* Loads of files whose nodes are not all named meshes, with the rotation
\* checkbox as the only control.
NextRegistry ==
  \/ \E cfg \in RegistryAssets : LoadModel(cfg)
  \/ \E i \in 1..MaxLoads : LoadSucceeds(i)
  \/ \E i \in 1..MaxLoads : LoadFails(i)
  \/ \E enabled \in BOOLEAN : SetAutoRotate(enabled)

SpecRegistry == Init /\ [][NextRegistry]_vars

\* The highlight operations of both paths alone, on the model of the page.
NextHighlight ==
  \/ \E cfg \in SystemIds : PageLoad(cfg)
  \/ \E i \in 1..MaxLoads : LoadSucceeds(i)
  \/ \E i \in 1..MaxLoads : LoadFails(i)
  \/ \E ids \in IdLists : HighlightPart(ids)
  \/ \E ids \in IdLists : UnhighlightPart(ids)
  \/ \E partName \in PartIds : CanvasClick(partName)

SpecHighlight == Init /\ [][NextHighlight]_vars

\* The expand and collapse buttons with the frames of the gsap ticker, next
\* to scene clicks and the rotation checkbox.  The ticker and the render
\* loop call themselves again on every frame (requestAnimationFrame), so a
\* frame that can be rendered is rendered eventually.
NextAnim ==
  \/ \E cfg \in SystemIds : PageLoad(cfg)
  \/ \E i \in 1..MaxLoads : LoadSucceeds(i)
  \/ \E i \in 1..MaxLoads : LoadFails(i)
  \/ Expand
  \/ Collapse
  \/ \E partName \in PartIds : CanvasClick(partName)
  \/ \E enabled \in BOOLEAN : SetAutoRotate(enabled)
  \/ Tick

SpecAnimFair == Init /\ [][NextAnim]_vars /\ WF_vars(Tick)

\* The grouping of the parts list, for every parts list of the pool.
InitGroups ==
  /\ InitViewer
  /\ partDefs \in PartLists
  /\ InitPage

NextGroups == PageModelLoaded

SpecGroups == InitGroups /\ [][NextGroups]_vars

\* The parts list and its search box.
InitSearch ==
  /\ InitViewer
  /\ partDefs \in SearchLists
  /\ InitPage

NextSearch ==
  \/ PageModelLoaded
  \/ \E value \in TypedValues : SearchInput(value)
  \/ Elapse
  \/ \E t \in DOMAIN timers : TimerFires(t)

SpecSearch == InitSearch /\ [][NextSearch]_vars

\* what the user types into the search box of the loaded page
SidebarQueries == { << "l", "e", "g" >>, << >> }

\* The sidebar of the loaded page: clicks on the list items and searches
\* that render the list again.
NextSidebar ==
  \/ \E systemId \in PageSystemIds : DOMContentLoaded(systemId)
  \/ PageLoadSucceeds
  \/ PageLoadFails
  \/ \E g \in 1..Len(allGroups) : ItemClick(allGroups[g].key)
  \/ \E value \in SidebarQueries : SearchInput(value)
  \/ Elapse
  \/ \E t \in DOMAIN timers : TimerFires(t)

SpecSidebar == Init /\ [][NextSidebar]_vars

\* a part whose name has ten words (systems.js sets no limit on a name)
LongNamePart ==
  [id |-> "Table_Bolt_0",
   name |->
     << "M", "6", " ", "H", "e", "x", " ", "B", "o", "l", "t", " ", "F",
       "o", "r", " ", "T", "h", "e", " ", "L", "e", "f", "t", " ",
       "R", "e", "a", "r", " ", "T", "a", "b", "l", "e", " ", "A",
       "p", "r", "o", "n", " ", "L", "e", "g" >>]

\* parts lists with and without the part of the long name
ScoreLists ==
  { << LongNamePart, PoolPart("Table_Leg_1") >>,
    << PoolPart("Table_Top"), LongNamePart >>,
    << PoolPart("Table_Long_Apron_1"), PoolPart("Table_Leg_1") >> }

\* what the user types: first letters of a late word, of an early word, the
\* inside of a word, letters in order, and letters no name has
ScoreQueries ==
  { << "l", "e", "g" >>, << "A", "p", "r", "o", "n" >>, << "h", "e", "x" >>, << "o", "l", "t" >>,
    << "m", "x", "b" >>, << "x", "y", "z" >>, << "r", "e", "a", "r", " ", "t", "a", "b", "l", "e" >> }

\* The search box over names of up to ten words.
InitScore ==
  /\ InitViewer
  /\ partDefs \in ScoreLists
  /\ InitPage

NextScore ==
  \/ PageModelLoaded
  \/ \E value \in ScoreQueries : SearchInput(value)
  \/ Elapse
  \/ \E t \in DOMAIN timers : TimerFires(t)

SpecScore == InitScore /\ [][NextScore]_vars

\* ------------------------------------------------------------ properties
Highlighted(id) == id \in highlightedParts \/ id \in sidebarHighlightedParts

MaterialOf(id) == mesh[parts[id]].material

NoLabels == partLabels = {} /\ \A id \in PartIds : domLabels[id] = 0

\* C1: a registered part's mesh carries the highlight material if and only
\* if its id is in the scene-click set or in the sidebar set.
C1_HighlightIffInSet ==
  \A id \in DOMAIN parts :
     (MaterialOf(id) = HighlightMaterial) <=> Highlighted(id)

\* C2: after setExplosionAmount(0) returns, both provenance sets are empty
\* and no label exists.
C2_CollapseToZeroDeselects ==
  (lastOp.op = "setExplosionAmount" /\ lastOp.n = 0)
     => /\ highlightedParts = {}
        /\ sidebarHighlightedParts = {}
        /\ NoLabels

\* the configured offset of a registered part on one axis, in scene units
ConfiguredOffset(id, axis) ==
  IF systemConfig # NoConfig /\ id \in DOMAIN Systems[systemConfig].expandConfig
  THEN Axis(Systems[systemConfig].expandConfig[id], axis)
  ELSE 0

\* C3: immediately after setExplosionAmount(percent), every registered part
\* is at rest + offset * (percent / 100) on every axis, a missing offset or a
\* missing axis counting as 0 (so parts without an offset are at rest).
C3_ExplosionPosition ==
  lastOp.op = "setExplosionAmount" =>
     \A id \in DOMAIN parts : \A a \in 1..3 :
        100 * (mesh[parts[id]].position[a] - originalPositions[id][a])
           = ConfiguredOffset(id, << "x", "y", "z" >>[a]) * Scale * lastOp.n

\* C3 witness: the slider at 37 on the table, whose top is offset on z only
C3_Witness ==
  /\ lastOp.op = "setExplosionAmount" /\ lastOp.n = 37
  /\ systemConfig = "table"
  /\ mesh[parts[Top]].position = << 0, 0, 237 >>
  /\ mesh[parts[Felt]].position = << 0, 0, 210 >>

C5_LabelsOnlyForHighlighted ==
  \A id \in PartIds :
     /\ domLabels[id] <= 1
     /\ domLabels[id] > 0 => Highlighted(id)

Ids(op) == {op.ids[i] : i \in 1..Len(op.ids)}

\* a call that releases part id through one of the two paths
Releases(op, id) ==
  /\ op.op \in {"click", "unhighlightPart"}
  /\ id \in Ids(op)

InBothSets(id) ==
  /\ id \in DOMAIN parts
  /\ id \in highlightedParts
  /\ id \in sidebarHighlightedParts

\* C6 (as claimed): a part that is in both sets and is released by one path
\* keeps its highlight material and its label.
C6_StaysHighlightedWhileClaimed ==
  [][\A id \in PartIds :
       (InBothSets(id) /\ Releases(lastOp', id))
          => /\ mesh'[parts'[id]].material = HighlightMaterial
             /\ id \in partLabels']_vars

\* C6 (amended): a part that is in both sets and is released by either path
\* leaves both sets, shows its original (unhighlighted) material again and
\* loses its tracked label.
C6_ReleaseClearsBothSets ==
  [][\A id \in PartIds :
       (InBothSets(id) /\ Releases(lastOp', id))
          => /\ id \notin highlightedParts'
             /\ id \notin sidebarHighlightedParts'
             /\ mesh'[parts'[id]].material = LoadMaterial
             /\ id \notin partLabels']_vars

\* C6 witness: a scene click has released a part that was in both sets
C6_Witness ==
  /\ lastOp.op = "click" /\ lastOp.n = 3
  /\ ~Highlighted(lastOp.ids[1])
  /\ MaterialOf(lastOp.ids[1]) = LoadMaterial

\* what the user sees of the highlight state
Visible ==
  [ material |-> [id \in DOMAIN parts |-> MaterialOf(id)],
    scene |-> highlightedParts,
    sidebar |-> sidebarHighlightedParts,
    labels |-> domLabels,
    rotation |-> autoRotate ]

\* C7: calling highlightPart([id]) a second time right after the first
\* leaves the visible state (materials, provenance sets, label elements on
\* screen, rotation flag) as the first call left it.
C7_HighlightPartIdempotent ==
  [][\A id \in DOMAIN parts :
       (lastOp = Op("highlightPart", << id >>, lastOp.n)
          /\ lastOp'.op = "highlightPart" /\ lastOp'.ids = << id >>)
          => Visible' = Visible]_vars

\* the viewer after a second scene click on the part just clicked
SecondToggle == togglePartHighlight(View', lastOp'.ids[1])

\* C8 (as claimed): togglePartHighlight applied twice returns the part's
\* material and its membership in each provenance set to the values they
\* had before the first call.
C8_ToggleTwiceRestoresEachSet ==
  [][lastOp'.op = "click" =>
       LET id == lastOp'.ids[1]
       IN /\ SecondToggle.mesh[SecondToggle.parts[id]].material = MaterialOf(id)
          /\ id \in SecondToggle.highlightedParts <=> id \in highlightedParts
          /\ id \in SecondToggle.sidebarHighlightedParts
                <=> id \in sidebarHighlightedParts]_vars

\* C8 (amended): togglePartHighlight applied twice returns the part's
\* membership in the union of the two sets to its value before the first
\* call, a part that was highlighted ending in the scene-click set only, and
\* leaves the part with the highlight material exactly when it was in one of
\* the sets before the first call.
C8_ToggleTwiceRestoresHighlight ==
  [][lastOp'.op = "click" =>
       LET id == lastOp'.ids[1]
           after == SecondToggle
       IN /\ (id \in after.highlightedParts \/ id \in after.sidebarHighlightedParts)
                <=> Highlighted(id)
          /\ id \in after.highlightedParts <=> Highlighted(id)
          /\ id \notin after.sidebarHighlightedParts
          /\ (after.mesh[after.parts[id]].material = HighlightMaterial)
                <=> Highlighted(id)]_vars

\* C8 witness: the first of the two clicks has acted on a part that was in
\* the sidebar set only
C8_Witness ==
  /\ lastOp.op = "click" /\ lastOp.n = 2
  /\ ~Highlighted(lastOp.ids[1])
  /\ lastOp.ids[1] \notin partLabels

SecondLoadDone == lastOp.op = "loadDone" /\ loadsDone >= 2

\* C9: when loadModel completes for a second time, both provenance sets are
\* empty and no label element exists.
C9_ReloadDropsHighlights ==
  SecondLoadDone =>
     /\ highlightedParts = {}
     /\ sidebarHighlightedParts = {}
     /\ NoLabels

\* C10: when loadModel completes for a second time, parts and
\* originalPositions hold entries exactly for the mesh nodes of the newly
\* loaded model.
C10_ReloadRebuildsRegistry ==
  SecondLoadDone =>
     /\ DOMAIN parts = RegisteredNames(Assets[systemConfig])
     /\ DOMAIN originalPositions = RegisteredNames(Assets[systemConfig])
     /\ \A id \in DOMAIN parts : parts[id] = << model, id >>

\* C11: at every moment, overlapping loadModel calls and either order of
\* their callbacks included, at most one loaded model is attached to the
\* scene, and it is the viewer's current model.
C11_OneModelInScene ==
  /\ Cardinality(sceneModels) <= 1
  /\ sceneModels = IF model = 0 THEN {} ELSE {model}

\* C11 witness: two overlapping loads have both completed, the one issued
\* first last, and its model is the only one in the scene
C11_Witness ==
  /\ lastOp.op = "loadDone" /\ lastOp.n = 1
  /\ loadsDone = 2
  /\ model = 1 /\ sceneModels = {1}

\* everything collapse() could touch
Controller ==
  << mesh, highlightedParts, sidebarHighlightedParts, partLabels, domLabels,
     isExpanded, autoRotate, autoRotateEnabled, tweens, parts,
     originalPositions >>

\* C12: collapse() called while isExpanded is false changes nothing: part
\* positions, both provenance sets, labels, materials, isExpanded and the
\* rotation flag are unchanged and no animation is started.
C12_CollapseWhenAssembledIsNoOp ==
  [][(lastOp'.op = "collapse" /\ ~isExpanded) => UNCHANGED Controller]_vars

\* C12 witness: collapse() has returned and a part highlighted before the
\* call still is, with the rotation still paused and no animation started
C12_Witness ==
  /\ lastOp.op = "collapse"
  /\ ~isExpanded /\ tweens = << >>
  /\ Top \in DOMAIN parts /\ Top \in sidebarHighlightedParts
  /\ Top \in highlightedParts
  /\ MaterialOf(Top) = HighlightMaterial
  /\ autoRotateEnabled /\ ~autoRotate

\* C13: collapse() called while isExpanded is true clears all highlights
\* within the call: on return both provenance sets are empty, no label
\* exists and every part has its original material.
C13_CollapseClearsHighlights ==
  [][(lastOp'.op = "collapse" /\ isExpanded)
       => /\ highlightedParts' = {}
          /\ sidebarHighlightedParts' = {}
          /\ partLabels' = {}
          /\ \A id \in PartIds : domLabels'[id] = 0
          /\ \A id \in DOMAIN parts' :
                mesh'[parts'[id]].material = LoadMaterial]_vars

Positions(m) == [n \in DOMAIN m |-> m[n].position]

\* C14: expand() on a viewer with a loaded expandConfig sets isExpanded to
\* true on return, before any animation step has moved a part; collapse() on
\* an expanded viewer sets isExpanded to false on return, before any part
\* has moved towards rest.
C14_FlagSetOnReturn ==
  [][/\ (lastOp'.op = "expand" /\ systemConfig # NoConfig)
          => isExpanded' /\ Positions(mesh') = Positions(mesh)
     /\ (lastOp'.op = "collapse" /\ isExpanded)
          => ~isExpanded' /\ Positions(mesh') = Positions(mesh)]_vars

\* C14 witness: expand() has returned on the table, the flag is set, the
\* animation has not rendered a frame and the top is at its rest position
C14_Witness ==
  /\ lastOp.op = "expand" /\ systemConfig = "table"
  /\ isExpanded
  /\ Len(tweens) = 1 /\ tweens[1].k = 0
  /\ mesh[parts[Top]].position = originalPositions[Top]

\* Where the most recently issued explosion change wants a part: each of
\* expand(), collapse() and setExplosionAmount(p) records its target in
\* isExpanded (true, false, p > 0), and the slider of this specification
\* only takes its two ends.
LastIssuedTarget(id) ==
  IF isExpanded
  THEN ExpandTarget(originalPositions[id],
                    Systems[systemConfig].expandConfig[id])
  ELSE originalPositions[id]

\* C15: last write wins: once all animation steps have run, every
\* offset-bearing part rests at the target of the most recently issued
\* expand(), collapse() or setExplosionAmount(p), also when that operation
\* was issued while an earlier animation was in flight.
C15_LastWriteWins ==
  (systemConfig # NoConfig /\ tweens = << >>)
     => \A id \in DOMAIN parts :
           HasOffset(View, id)
              => mesh[parts[id]].position = LastIssuedTarget(id)

\* C16: for a burst of search keystrokes, each arriving before the timer of
\* the one before has elapsed, the filter-and-render pass runs exactly once,
\* only when the timer of the last keystroke has elapsed (150 ms after it)
\* and with the query of the last keystroke: until then the only pending
\* timer is the last keystroke's and no pass has run.
C16_SearchDebounce ==
  searchDebounceTimer # 0 =>
     /\ searchLog.passes <= 1
     /\ searchLog.passes = 0 =>
           /\ DOMAIN timers = {searchDebounceTimer}
           /\ timers[searchDebounceTimer].query = searchLog.typed
     /\ searchLog.passes = 1 =>
           /\ DOMAIN timers = {}
           /\ searchLog.pass.query = searchLog.typed
           /\ searchLog.pass.at = SEARCH_DEBOUNCE_MS
           /\ rendered = filterAndRenderParts(allGroups, searchLog.typed)

\* C16 witness: a burst of two keystrokes has ended in one pass, run 150 ms
\* after the second keystroke with its query
C16_Witness ==
  /\ searchLog.burst /\ searchLog.passes = 1
  /\ searchLog.typed = << "f", "e", "l", "t" >>
  /\ searchLog.pass.query = << "f", "e", "l", "t" >>
  /\ searchLog.pass.at = SEARCH_DEBOUNCE_MS
  /\ rendered = << << "P", "r", "o", "t", "e", "c", "t", "i", "v", "e", " ",
                      "F", "e", "l", "t" >> >>

\* length of the longest suffix of str whose characters are all in class
TrailingRun(str, class) ==
  Greatest({k \in 0..Len(str) :
              \A i \in (Len(str) - k + 1)..Len(str) : str[i] \in class})

Digits == {"0", "1", "2", "3", "4", "5", "6", "7", "8", "9"}
Spaces == {" ", "\t", "\n"}

\* the base name of a display name: the name without its trailing number
\* and the whitespace in front of that number
BaseName(name) ==
  LET d == TrailingRun(name, Digits)
      stem == SubSeq(name, 1, Len(name) - d)
  IN IF d = 0 THEN name
     ELSE SubSeq(stem, 1, Len(stem) - TrailingRun(stem, Spaces))

\* ids of the parts of the list whose base name is b, in list order
IdsWithBase(b) ==
  LET sel == SelectSeq(partDefs, LAMBDA part : BaseName(part.name) = b)
  IN [k \in 1..Len(sel) |-> sel[k].id]

FirstWithBase(b) ==
  Least({i \in 1..Len(partDefs) : BaseName(partDefs[i].name) = b})

\* C17: groupParts yields exactly one group per distinct base name, the
\* groups ordered by first occurrence of their base name, every part id in
\* exactly one group, and the ids inside a group in input order.
C17_GroupPartsByBaseName ==
  pageReady =>
     LET bases == {BaseName(partDefs[i].name) : i \in 1..Len(partDefs)}
         G == 1..Len(allGroups)
     IN /\ Len(allGroups) = Cardinality(bases)
        /\ {allGroups[g].key : g \in G} = bases
        /\ \A g, h \in G :
              g < h => FirstWithBase(allGroups[g].key)
                          < FirstWithBase(allGroups[h].key)
        /\ \A i \in 1..Len(partDefs) :
              Cardinality({gk \in G \X (1..Len(partDefs)) :
                             /\ gk[2] <= Len(allGroups[gk[1]].ids)
                             /\ allGroups[gk[1]].ids[gk[2]] = partDefs[i].id}) = 1
        /\ \A g \in G : allGroups[g].ids = IdsWithBase(allGroups[g].key)

\* C17 witness: "Leg 2", "Table Top", "Leg 1" have become the group of the
\* two legs, second leg first, followed by the group of the top
C17_Witness ==
  /\ pageReady
  /\ Len(partDefs) = 3 /\ Len(allGroups) = 2
  /\ allGroups[1].key = << "L", "e", "g" >>
  /\ allGroups[1].ids = << "Table_Leg_2", "Table_Leg_1" >>
  /\ allGroups[2].ids = << "Table_Top" >>

\* name of the part of the list that has this id
NameOfPart(id) ==
  partDefs[CHOOSE i \in 1..Len(partDefs) : partDefs[i].id = id].name

\* C18: the displayName of a group is its base name with "s" appended
\* exactly when the group has more than one member and the base name does
\* not already end in "s"; otherwise it is the base name.
C18_PluralDisplayName ==
  pageReady =>
     \A g \in 1..Len(allGroups) :
        LET base == BaseName(NameOfPart(allGroups[g].ids[1]))
            several == Len(allGroups[g].ids) > 1
            endsInS == base # << >> /\ base[Len(base)] = "s"
        IN allGroups[g].displayName =
              IF several /\ ~endsInS THEN base \o << "s" >> ELSE base

\* C18 witness: the two panes of glass form one group that keeps the name
\* "Glass", next to a single leg, named "Leg"
C18_Witness ==
  /\ pageReady
  /\ Len(allGroups) = 2
  /\ Len(allGroups[1].ids) = 2
  /\ allGroups[1].displayName = << "G", "l", "a", "s", "s" >>
  /\ Len(allGroups[2].ids) = 1
  /\ allGroups[2].displayName = << "L", "e", "g" >>

\* the rules of the scoring, stated on the lowercased name n
NameStartsWith(n, q) ==
  Len(q) <= Len(n) /\ \A k \in 1..Len(q) : n[k] = q[k]

\* positions at which a whitespace-delimited word of n begins
WordStarts(n) ==
  {p \in 1..Len(n) : ~IsSpace(n[p]) /\ (p = 1 \/ IsSpace(n[p - 1]))}

\* the word that begins at p starts with q
WordStartsWith(n, p, q) ==
  \A k \in 1..Len(q) :
     /\ p + k - 1 <= Len(n)
     /\ n[p + k - 1] = q[k]
     /\ ~IsSpace(n[p + k - 1])

\* index of the word that begins at p, the first word having index 0
WordIndex(n, p) == Cardinality({r \in WordStarts(n) : r < p})

IsSubstring(n, q) ==
  \E i \in 1..(Len(n) - Len(q) + 1) : \A k \in 1..Len(q) : n[i + k - 1] = q[k]

\* q can be read off n from position from on, letters in order
RECURSIVE IsSubsequence(_, _, _)
IsSubsequence(n, q, from) ==
  \/ q = << >>
  \/ \E i \in from..Len(n) : n[i] = q[1] /\ IsSubsequence(n, Tail(q), i + 1)

RuleScore(displayName, q) ==
  LET n == toLowerCase(displayName)
      hits == {p \in WordStarts(n) : WordStartsWith(n, p, q)}
  IN IF NameStartsWith(n, q) THEN 100
     ELSE IF hits # {} THEN 90 - 10 * WordIndex(n, Least(hits))
     ELSE IF IsSubstring(n, q) THEN 50
     ELSE IF IsSubsequence(n, q, 1) THEN 20
     ELSE 0

ProtectiveFelt ==
  << "P", "r", "o", "t", "e", "c", "t", "i", "v", "e", " ", "F", "e", "l", "t" >>

\* the scores the last pass gave to "Protective Felt" for the query "felt"
FeltScores ==
  {searchLog.pass.scores[g] : g \in
     {h \in 1..Len(searchLog.pass.scores) :
        /\ allGroups[h].displayName = ProtectiveFelt
        /\ searchLog.pass.query = << "f", "e", "l", "t" >>}}

\* C20 (as claimed): getSearchScore("Protective Felt", "felt") equals 90.
C20_ProtectiveFeltScores90 == FeltScores \subseteq {90}

\* C20 (amended): getSearchScore("Protective Felt", "felt") equals 80, the
\* value of the word rule for the second word (index 1).
C20_ProtectiveFeltScores80 == FeltScores \subseteq {80}

\* C20 witness: a pass has scored "Protective Felt" against "felt" and
\* lists it
C20_Witness ==
  /\ FeltScores # {}
  /\ rendered = << ProtectiveFelt >>
  /\ Len(allGroups) = 3

\* position of the group with this key in the source grouping
GroupIndex(key) == CHOOSE g \in 1..Len(allGroups) : allGroups[g].key = key

\* the score the last pass gave to the group with this key
PassScore(key) == searchLog.pass.scores[GroupIndex(key)]

\* C21: with a non-empty query, the filtered list contains exactly the
\* groups whose display name scores above 0, each once, ordered by
\* descending score, and groups with equal score keep their relative order
\* from the source grouping.
C21_FilteredByScoreStable ==
  (searchLog.passes >= 1 /\ searchLog.pass.query # << >>) =>
     /\ {rendered[i] : i \in 1..Len(rendered)}
          = {allGroups[g].key : g \in {h \in 1..Len(allGroups) :
                getSearchScore(allGroups[h].displayName,
                               searchLog.pass.query) > 0}}
     /\ \A i, j \in 1..Len(rendered) :
           i < j =>
              /\ rendered[i] # rendered[j]
              /\ PassScore(rendered[i]) >= PassScore(rendered[j])
              /\ PassScore(rendered[i]) = PassScore(rendered[j])
                    => GroupIndex(rendered[i]) < GroupIndex(rendered[j])

\* C21 witness: the query "l" has put the two groups that start with it
\* ahead of the top, and kept the source order inside each score
C21_Witness ==
  /\ searchLog.passes = 1
  /\ searchLog.pass.query = << "l" >>
  /\ searchLog.pass.scores = << 50, 100, 100, 50, 50 >>
  /\ rendered = << allGroups[2].key, allGroups[3].key, allGroups[1].key,
                   allGroups[4].key, allGroups[5].key >>

\* the box held nothing but whitespace
OnlyWhitespace(value) == \A i \in 1..Len(value) : value[i] \in Spaces

\* C22: with an empty query (a box holding only whitespace included), the
\* rendered list contains every group of the source grouping, in the source
\* grouping's order.
C22_EmptyQueryListsAll ==
  (searchLog.passes >= 1 /\ OnlyWhitespace(searchLog.value)) =>
     rendered = [g \in 1..Len(allGroups) |-> allGroups[g].key]

\* C22 witness: two blanks typed into the box while a timer was pending
\* have brought back the five groups of the table in their order
C22_Witness ==
  /\ searchLog.passes = 1 /\ searchLog.burst
  /\ searchLog.value = << " ", " " >>
  /\ Len(allGroups) = 5
  /\ rendered = [g \in 1..5 |-> allGroups[g].key]

\* the one load of the page has ended in its error callback
LoadFailed == loadsIssued = 1 /\ pendingLoads = << >> /\ loadsDone = 0

\* C23: when the model asset fails to load, the promise of loadModel
\* rejects into the page's catch, which shows the error message; the
\* viewer's model, registry and stored config stay empty, no parts list is
\* rendered, and no further load is attempted, whatever the user does next.
C23_LoadFailureLeavesPageEmpty ==
  /\ LoadFailed <=> sysDesc = ErrorText
  /\ LoadFailed =>
        /\ model = 0 /\ sceneModels = {}
        /\ parts = << >> /\ originalPositions = << >>
        /\ systemConfig = NoConfig
        /\ allGroups = << >> /\ rendered = << >>
  /\ loadsIssued <= 1

\* C23 witness: the load of the table has just failed, the message is
\* shown and the controls are bound to a viewer without model
C23_Witness ==
  /\ lastOp = Op("loadError", << "table" >>, 1)
  /\ sysDesc = ErrorText /\ pageReady
  /\ model = 0 /\ parts = << >> /\ rendered = << >>

\* the page was opened for a system without a modelPath
PlaceholderPage == sysDesc = DescriptionText("laptop")

GroupStillHighlighted(key) ==
  \E id \in ItemIds(key) :
     id \in highlightedParts' \/ id \in sidebarHighlightedParts'

\* C30: when a scene click unhighlights a part, each sidebar item whose
\* group contains that part loses its selected mark exactly when no part of
\* that group remains in either provenance set; sidebar items of groups
\* that do not contain the part are unchanged.
C30_ClickSyncsSidebarMarks ==
  [][(lastOp'.op = "click" /\ lastOp'.ids # << >> /\ lastOp'.n # 0)
       => \A i \in 1..Len(rendered) :
             LET key == rendered[i]
             IN IF lastOp'.ids[1] \in ItemIds(key)
                THEN /\ key \in selected'
                          <=> (key \in selected /\ GroupStillHighlighted(key))
                ELSE key \in selected' <=> key \in selected]_vars

\* C30 witness: a scene click has unhighlighted the top, which the sidebar
\* had highlighted together with the felt; the felt still is, and the item
\* of their group is still marked
C30_Witness ==
  /\ lastOp = Op("click", << Top >>, 2)
  /\ Felt \in sidebarHighlightedParts
  /\ ~Highlighted(Top)
  /\ selected = {<< "P", "a", "n", "e", "l" >>}

\* the call went to the sidebar interface with ids that are all absent from
\* the registry
OnlyUnknownIds ==
  /\ lastOp'.op \in {"highlightPart", "unhighlightPart"}
  /\ \A i \in 1..Len(lastOp'.ids) : lastOp'.ids[i] \notin DOMAIN parts

\* C24: highlightPart or unhighlightPart called only with ids absent from
\* the registry leaves the whole controller state unchanged: both
\* provenance sets, labels, materials, positions, isExpanded and the
\* rotation flag.
C24_UnknownIdIsNoOp ==
  [][OnlyUnknownIds => UNCHANGED Controller]_vars

\* C26: after unhighlightPart(ids) returns, every id of ids is in neither
\* the sidebar set nor the scene-click set, has no tracked label, and, if
\* an original material is cached for its mesh, the mesh has that material.
C26_UnhighlightPartClearsIds ==
  [][lastOp'.op = "unhighlightPart"
       => \A i \in 1..Len(lastOp'.ids) :
             LET id == lastOp'.ids[i]
             IN /\ id \notin sidebarHighlightedParts'
                /\ id \notin highlightedParts'
                /\ id \notin partLabels'
                /\ (id \in DOMAIN parts'
                      /\ mesh'[parts'[id]].originalMaterial # NoMaterial)
                     => mesh'[parts'[id]].material
                           = mesh'[parts'[id]].originalMaterial]_vars

\* C26 witness: unhighlightPart has returned for the top and the felt, the
\* top having been in both sets; both are in no set, without label and in
\* their load-time material
C26_Witness ==
  /\ lastOp = Op("unhighlightPart", << Top, Felt >>, 3)
  /\ Felt \in DOMAIN parts
  /\ mesh[parts[Top]].originalMaterial = LoadMaterial
  /\ MaterialOf(Top) = LoadMaterial /\ MaterialOf(Felt) = LoadMaterial
  /\ ~Highlighted(Top) /\ ~Highlighted(Felt)
  /\ partLabels = {}

\* C27: once two loadModel calls on one viewer have both completed, the
\* active model, the stored config and the registry entries of that
\* config's meshes are those of the call issued last, whichever of the two
\* loads finished first.
C27_LastIssuedLoadWins ==
  (loadsIssued = 2 /\ loadsDone = 2) =>
     /\ model = 2
     /\ \A id \in RegisteredNames(Assets[systemConfig]) :
           id \in DOMAIN parts /\ parts[id] = << 2, id >>

\* str in capitals, and str with the case of every letter changed
UpperCased(str) ==
  [i \in 1..Len(str) |->
     IF \E k \in 1..Len(Lowers) : Lowers[k] = str[i]
     THEN Uppers[CHOOSE k \in 1..Len(Lowers) : Lowers[k] = str[i]]
     ELSE str[i]]

SwapCased(str) ==
  [i \in 1..Len(str) |->
     IF \E k \in 1..Len(Lowers) : Lowers[k] = str[i]
     THEN Uppers[CHOOSE k \in 1..Len(Lowers) : Lowers[k] = str[i]]
     ELSE IF \E k \in 1..Len(Uppers) : Uppers[k] = str[i]
          THEN Lowers[CHOOSE k \in 1..Len(Uppers) : Uppers[k] = str[i]]
          ELSE str[i]]

\* str and three respellings of it that differ in letter case only
CaseVariants(str) ==
  {str, UpperCased(str), SwapCased(str), SwapCased(UpperCased(str))}

C29_SidebarHighlightPausesRotation ==
  sidebarHighlightedParts # {} => ~autoRotate

\* C31: the rest position recorded for a part at model load never changes
\* afterwards: whatever setExplosionAmount, expand, collapse, animation
\* steps and highlight operations have run since the load, every entry of
\* originalPositions is the position the mesh had in the loaded asset.
C31_RestPositionsImmutable ==
  systemConfig # NoConfig =>
     \A id \in DOMAIN originalPositions :
        originalPositions[id] = AssetPosition(Assets[systemConfig], id)

\* C31 witness: a frame of the expand animation has moved the top of the
\* table away from the rest position, which is still the one of the asset
C31_Witness ==
  /\ lastOp.op = "tick" /\ systemConfig = "table" /\ isExpanded
  /\ mesh[parts[Top]].position # originalPositions[Top]
  /\ originalPositions[Top] = << 0, 0, 200 >>

\* C32: a part's cached original material is captured only while the part
\* shows its load-time material and is never overwritten afterwards, so
\* after any sequence of highlight, unhighlight and toggle operations
\* through either path the cache holds the load-time material and an
\* unhighlighted part shows it.
C32_OriginalMaterialCachedOnce ==
  \A id \in DOMAIN parts :
     /\ mesh[parts[id]].originalMaterial \in {NoMaterial, LoadMaterial}
     /\ ~Highlighted(id) => MaterialOf(id) = LoadMaterial

\* C32 witness: a scene click has released the top, which was in both sets
\* and had been highlighted more than once; it shows its load-time
\* material, which is also what the cache holds
C32_Witness ==
  /\ lastOp = Op("click", << Top >>, 3)
  /\ domLabels[Top] >= 1
  /\ ~Highlighted(Top)
  /\ MaterialOf(Top) = LoadMaterial
  /\ mesh[parts[Top]].originalMaterial = LoadMaterial

\* the mesh nodes of an asset that have a non-empty name
NamedMeshes(asset) ==
  {i \in 1..Len(asset) : asset[i].isMesh /\ asset[i].name # ""}

\* C33: building the registry at model load records a node and a rest
\* position for every mesh node that has a non-empty name and records
\* nothing for mesh nodes whose name is empty (nor for other nodes).
C33_RegistryOfNamedMeshes ==
  (lastOp.op = "loadDone" /\ loadsDone = 1) =>
     LET asset == Assets[systemConfig]
         names == {asset[i].name : i \in NamedMeshes(asset)}
     IN /\ DOMAIN parts = names
        /\ DOMAIN originalPositions = names
        /\ \A i \in NamedMeshes(asset) :
              /\ parts[asset[i].name] = << model, asset[i].name >>
              /\ originalPositions[asset[i].name] = asset[i].position

\* ------------------------------------------------------------------- C34
\* the position the last expand() or collapse() call animates a part to
IssuedTarget(id) ==
  IF isExpanded /\ HasOffset(View, id)
  THEN ExpandTarget(originalPositions[id],
                    Systems[systemConfig].expandConfig[id])
  ELSE originalPositions[id]

AtIssuedTarget ==
  \A id \in DOMAIN parts : mesh[parts[id]].position = IssuedTarget(id)

C34_WitnessCollapsed ==
  /\ lastOp.op = "tick"
  /\ tweens = << >>
  /\ systemConfig = "table"
  /\ ~isExpanded
  /\ AtIssuedTarget

\* ------------------------------------------------------------------- C35
AwayFromRest(id) == mesh[parts[id]].position # originalPositions[id]

\* C35: whenever no expand/collapse animation is in flight, isExpanded is
\* false only if every part is at its rest position (so that collapse(),
\* which returns at once when isExpanded is false, is never a no-op while a
\* part sits away from rest).
C35_FlagAgreesWithPositions ==
  (systemConfig # NoConfig /\ tweens = << >> /\ ~isExpanded)
     => \A id \in DOMAIN parts : ~AwayFromRest(id)

\* ------------------------------------------------------------------- C36
InSidebarSet(key) == \E id \in ItemIds(key) : id \in sidebarHighlightedParts

\* C36: every item of the rendered list carries the selected mark if and
\* only if at least one id of its group is in the sidebar provenance set.
C36_MarkIffInSidebarSet ==
  \A i \in 1..Len(rendered) :
     rendered[i] \in selected <=> InSidebarSet(rendered[i])

\* ------------------------------------------------------------------- C37
\* C37: every part id that is in the scene-click set or in the sidebar set
\* has a tracked label, an entry in partLabels.
C37_HighlightedHasTrackedLabel ==
  \A id \in highlightedParts \cup sidebarHighlightedParts : id \in partLabels

\* ------------------------------------------------------------------- C38
\* the group's lowercased display name contains the query as a substring
TextualMatch(g, query) == includes(toLowerCase(allGroups[g].displayName), query)

Listed(key) == \E i \in 1..Len(rendered) : rendered[i] = key

\* C38: after a search pass with a non-empty query, every group whose
\* lowercased display name contains the query scored above 0 and is in the
\* rendered list.
C38_SearchKeepsTextualMatches ==
  (searchLog.pass # NoPass /\ searchLog.pass.query # << >>)
     => \A g \in 1..Len(allGroups) :
           TextualMatch(g, searchLog.pass.query)
              => /\ searchLog.pass.scores[g] > 0
                 /\ Listed(allGroups[g].key)

\* ------------------------------------------------------------------- C39
\* the material and the cached material of every mesh
Materials(m) ==
  [n \in DOMAIN m |->
     [material |-> m[n].material, originalMaterial |-> m[n].originalMaterial]]

ExplodesOrExpands ==
  \/ lastOp'.op = "expand"
  \/ lastOp'.op = "setExplosionAmount" /\ lastOp'.n > 0

\* C39: setExplosionAmount(p) with p > 0 and expand() leave both provenance
\* sets, every part's material and the labels (tracked and in the DOM) as
\* they were before the call.
C39_ExplodingKeepsHighlights ==
  [][ExplodesOrExpands
       => /\ highlightedParts' = highlightedParts
          /\ sidebarHighlightedParts' = sidebarHighlightedParts
          /\ Materials(mesh') = Materials(mesh)
          /\ partLabels' = partLabels
          /\ domLabels' = domLabels]_vars

\* C39 witness: the slider went to 100 with the top highlighted by a scene
\* click and the felt from the sidebar, both labelled; the top has moved
C39_Witness ==
  /\ lastOp = Op("setExplosionAmount", << >>, 100)
  /\ highlightedParts = {Top}
  /\ sidebarHighlightedParts = {Felt}
  /\ partLabels = {Top, Felt}
  /\ MaterialOf(Top) = HighlightMaterial
  /\ mesh[parts[Top]].position # originalPositions[Top]


====
